---- MODULE Spec2Model ----
(***************************************************************************)
(* Payment reconciliation of tg-shop-bot: the /webhook/payment-ipn handler *)
(* (src/web/app.py), NOWPaymentsService.process_ipn_callback and its two   *)
(* fulfillment handlers (src/services/nowpayments.py), run by several web  *)
(* workers against one relational store (src/database).                    *)
(* Beside them the Telegram bot's cart, checkout and payment handlers      *)
(* (src/bot/bot.py), the order-total functions (src/bot/utils.py) and the  *)
(* shop operator's order status changes.                                  *)
(*                                                                         *)
(* Conventions.  Money is counted in cents, so int(total_amount) is        *)
(* integer division by 100.  Python None and a missing dict key are the    *)
(* string Absent, an absent number is the empty sequence.  A SQLAlchemy    *)
(* session is the pair (row as loaded, row in memory); commit writes back  *)
(* exactly the attributes whose in-memory value differs from the loaded    *)
(* one.  updated_at columns are not modelled.                              *)
(***************************************************************************)
EXTENDS Integers, Sequences, FiniteSets, TLC

VARIABLES
    payments,              \* table payments, keyed by Payment.payment_id
    orders,                \* table orders, keyed by Order.id
    users,                 \* table users, keyed by User.id
    loyalty_transactions,  \* table loyalty_transactions, in insertion order
    order_items,           \* table order_items, per order in line order
    proc,                  \* per web worker: position in the handler and its session
    notifications,         \* number of notifications the gateway has sent so far
    next_token,            \* number of download tokens generated so far (uuid4 is fresh)
    award_calls,           \* per payment: invocations of _award_loyalty_points
    delivery_calls,        \* per payment: invocations of _process_digital_delivery
    finished_recorded,     \* payments for which a commit has stored status FINISHED
    bot,                   \* the Telegram bot: position in the update handler it runs
    user_carts,            \* TelegramShopBot.user_carts, the in-memory carts
    updates,               \* number of Telegram updates the bot has taken so far
    calc                   \* argument and result of a call of the order-total functions

vars == <<payments, orders, users, loyalty_transactions, order_items, proc,
          notifications, next_token, award_calls, delivery_calls, finished_recorded,
          bot, user_carts, updates, calc>>

\* what the web workers never touch
botvars == <<bot, user_carts, updates, calc>>

\* The persistent store as one value.
Store == [payments |-> payments, orders |-> orders, users |-> users,
          loyalty_transactions |-> loyalty_transactions, order_items |-> order_items]

(***************************************************************************)
(* Bounds                                                                  *)
(***************************************************************************)
\* notifications the gateway sends in a run of the one-worker specification
MaxNotifications == 3

\* notifications the gateway sends in a run of the several-worker specification
MaxConcurrentNotifications == 2

Workers == {"w1", "w2"}

\* notifications the gateway sends in a run of the shop specification
MaxShopNotifications == 2

\* Telegram updates the bot takes in a run of the shop specification
MaxUpdates == 2

SeqWorker == "w1"

(***************************************************************************)
(* Values                                                                  *)
(***************************************************************************)
Absent == "<absent>"

Falsy(s) == s \in {Absent, ""}

ipn_secret == "ipn_secret"

PaymentStatus == {"PENDING", "WAITING", "CONFIRMING", "CONFIRMED", "SENDING",
                  "PARTIALLY_PAID", "FINISHED", "FAILED", "REFUNDED", "EXPIRED"}

TerminalStatus == {"FINISHED", "FAILED", "REFUNDED", "EXPIRED"}

OrderStatus == {"PENDING", "PAID", "PROCESSING", "SHIPPED", "DELIVERED",
                "CANCELLED", "REFUNDED"}

\* str.lower() on the status strings the gateway is modelled to send.
Lower(s) ==
    CASE s = "FINISHED" -> "finished"
      [] s = "Confirming" -> "confirming"
      [] OTHER -> s

map_payment_status_FailedAsFinished(nowpayments_status) ==
    IF Lower(nowpayments_status) \in {"finished", "failed"} THEN "FINISHED" ELSE "PENDING"

map_payment_status(nowpayments_status) ==
    LET k == Lower(nowpayments_status) IN
    CASE k = "waiting" -> "WAITING"
      [] k = "confirming" -> "CONFIRMING"
      [] k = "confirmed" -> "CONFIRMED"
      [] k = "sending" -> "SENDING"
      [] k = "partially_paid" -> "PARTIALLY_PAID"
      [] k = "finished" -> "FINISHED"
      [] k = "failed" -> "FAILED"
      [] k = "refunded" -> "REFUNDED"
      [] k = "expired" -> "EXPIRED"
      [] OTHER -> "PENDING"

PyInt_RoundsUp(cents) == (cents + 99) \div 100

\* int(x) of a non-negative or negative amount in cents: truncation toward zero.
PyInt(cents) == IF cents >= 0 THEN cents \div 100 ELSE -((-cents) \div 100)

\* "x or d" for a nullable integer column (None and 0 are both falsy; None is 0).
OrDefault(x, d) == IF x = 0 THEN d ELSE x

\* dict.get(key, default) for a numeric field held as <<>> (absent) or <<v>>.
GetNum(field, default) == IF field = <<>> THEN default ELSE field[1]

(***************************************************************************)
(* Catalogue (table products); rows are never written by the modelled code *)
(***************************************************************************)
Products ==
    (1 :> [product_type |-> "DIGITAL", digital_file_url |-> "files/ebook.pdf",
           download_limit |-> 0, download_expiry_days |-> 0, price |-> 3000]) @@
    (2 :> [product_type |-> "PHYSICAL", digital_file_url |-> Absent,
           download_limit |-> 0, download_expiry_days |-> 0, price |-> 2000]) @@
    (3 :> [product_type |-> "DIGITAL", digital_file_url |-> Absent,
           download_limit |-> 3, download_expiry_days |-> 7, price |-> 50])

NullLinks == [null |-> TRUE, links |-> <<>>]

NewItem(product_id) ==
    [product_id |-> product_id, download_links |-> NullLinks, download_expires_at |-> 0]

(***************************************************************************)
(* Notifications                                                           *)
(***************************************************************************)
NotifPaymentIds == {"np_1", "np_2", "np_unknown", Absent}

NotifStatuses == {"finished", "FINISHED", "confirming", "failed", "bogus", "", Absent}

\* The optional fields of a notification: none of them, or all of them.
BareFields == [actually_paid |-> <<>>, actually_paid_currency |-> Absent,
               txid |-> Absent, network |-> Absent]

FullFields == [actually_paid |-> <<21>>, actually_paid_currency |-> "btc",
               txid |-> "tx_1", network |-> "btc"]

\* A body the JSON parser rejects.
MalformedBody == [malformed |-> TRUE, payment_id |-> Absent, payment_status |-> Absent,
                  fields |-> BareFields]

Bodies ==
    {MalformedBody} \cup
    [malformed : {FALSE}, payment_id : NotifPaymentIds, payment_status : NotifStatuses,
     fields : {BareFields, FullFields}]

\* HMAC-SHA512 keyed digest: determined by, and determining, key and payload.
hmac_sha512(key, payload) == [key |-> key, payload |-> payload]

NoSignature == [key |-> Absent, payload |-> MalformedBody]

\* A body the gateway did sign, whose signature an attacker can replay on another body.
GatewaySignedBody == [malformed |-> FALSE, payment_id |-> "np_1",
                      payment_status |-> "confirming", fields |-> BareFields]

SignaturesFor(body) ==
    {NoSignature, hmac_sha512(ipn_secret, body), hmac_sha512("forged_key", body),
     hmac_sha512(ipn_secret, GatewaySignedBody)}

Requests == UNION {{[body |-> b, signature |-> s] : s \in SignaturesFor(b)} : b \in Bodies}

NoRequest == [body |-> MalformedBody, signature |-> NoSignature]

verify_ipn_signature_AcceptAll(payload, signature) == TRUE

verify_ipn_signature(payload, signature) ==
    hmac_sha512(ipn_secret, payload) = signature

\* payment_ipn line 578: "not signature or not verify_ipn_signature(...)" is false.
SignatureAccepted(req) ==
    /\ req.signature # NoSignature
    /\ verify_ipn_signature(req.body, req.signature)

\* What the route function hands back to the framework.
ReturnOk == [kind |-> "dict", status |-> "ok", message |-> FALSE, code |-> 0]

ReturnErrorTuple400 == [kind |-> "tuple", status |-> "error", message |-> FALSE, code |-> 400]

ReturnErrorTuple500 == [kind |-> "tuple", status |-> "error", message |-> TRUE, code |-> 500]

NoReturn == [kind |-> "none", status |-> "none", message |-> FALSE, code |-> 0]

\* A route without status_code answers 200 and JSON-encodes whatever value the
\* function returned; a returned tuple is encoded as a two-element array.
HttpResponse(ret) == [status_code |-> 200, json |-> ret]

(***************************************************************************)
(* Rows and sessions                                                       *)
(***************************************************************************)
NullPayment == [order_id |-> 0, payment_status |-> "PENDING", actually_paid |-> 0,
                actually_paid_currency |-> Absent, txn_id |-> Absent, network |-> Absent]

\* the column defaults of models.py lines 206-216
NullOrder == [user_id |-> 0, status |-> "PENDING", payment_status |-> "PENDING",
              subtotal |-> 0, discount_amount |-> 0, tax_amount |-> 0,
              shipping_amount |-> 0, total_amount |-> 0]

\* str(n) of an integer n, and the integer itself, as dictionary keys: a str
\* and an int are never equal, whatever their digits
PyStr(n) == [type |-> "str", digits |-> n]

IntKey(n) == [type |-> "int", digits |-> n]

NullUser == [telegram_id |-> PyStr(0), username |-> Absent,
             loyalty_points |-> 0, total_spent |-> 0, total_orders |-> 0]

Flush_SkipsStatus(current, loaded, mem) ==
    [f \in DOMAIN current |->
        IF f # "status" /\ mem[f] # loaded[f] THEN mem[f] ELSE current[f]]

\* Session.commit(): the UPDATE of a row carries the attributes whose in-memory
\* value differs from the value loaded; the others keep what the store holds now.
Flush(current, loaded, mem) ==
    [f \in DOMAIN current |-> IF mem[f] # loaded[f] THEN mem[f] ELSE current[f]]

FlushItems(current, loaded, mem) ==
    [i \in 1..Len(current) |->
        IF i <= Len(mem) THEN Flush(current[i], loaded[i], mem[i]) ELSE current[i]]

\* What a worker remembers of the delivery it has just answered while the
\* gateway retransmits the same notification to it.
NoFirst == [result |-> "none", old_status |-> "PENDING", awarded |-> 0, delivered |-> 0,
            faults |-> {},
            store |-> [payments |-> <<>>, orders |-> <<>>, users |-> <<>>,
                       loyalty_transactions |-> <<>>, order_items |-> <<>>]]

IdleProc ==
    [pc |-> "idle", req |-> NoRequest, called |-> FALSE, queried |-> FALSE, pid |-> Absent,
     loaded |-> NullPayment, mem |-> NullPayment,
     old_status |-> "PENDING", new_status |-> "PENDING", finishing |-> FALSE,
     order_id |-> 0, order_l |-> NullOrder, order_m |-> NullOrder,
     user_loaded |-> FALSE, user_l |-> NullUser, user_m |-> NullUser,
     items_l |-> <<>>, items_m |-> <<>>,
     result |-> "none", ret |-> NoReturn, faults |-> {},
     awarded |-> 0, delivered |-> 0, lt0 |-> 0,
     replay |-> FALSE, first |-> NoFirst]

(***************************************************************************)
(* The Telegram bot and the payment gateway's create-payment endpoint       *)
(***************************************************************************)
\* the payment ids the gateway hands out for payments created during a run
NewPaymentIds == <<"np_3", "np_4", "np_5">>

PaymentIds == {"np_1", "np_2"} \cup {NewPaymentIds[i] : i \in 1..Len(NewPaymentIds)}

\* what create_payment returned: the gateway's JSON, or None
NoQuote == [ok |-> FALSE, failure |-> "none", payment_id |-> Absent]

\* failed: the orders for which a create_payment call has failed so far
IdleBot == [pc |-> "idle", telegram_user |-> 0, order_id |-> 0, found |-> FALSE,
            quote |-> NoQuote, failed |-> {}]

\* the five amounts of an order, all zero
ZeroTotals == [subtotal |-> 0, discount_amount |-> 0, tax_amount |-> 0,
               shipping_amount |-> 0, total_amount |-> 0]

NoCalc == [function |-> "none", items |-> <<>>, discount_code |-> Absent,
           cart |-> <<>>, result |-> ZeroTotals]

(***************************************************************************)
(* Initial store: two customers, each with one order placed by checkout    *)
(* (status PENDING, total = subtotal) and one payment opened for it         *)
(* (status WAITING).  Order 1 is 50.00 for an e-book and a physical item,  *)
(* order 2 is 0.50 for a digital product without a file.                   *)
(***************************************************************************)
InitPayment(order_id) == [NullPayment EXCEPT !.order_id = order_id, !.payment_status = "WAITING"]

\* an order as start_checkout stores it: total_amount = subtotal, the other amounts default
InitOrder(user_id, subtotal) ==
    [NullOrder EXCEPT !.user_id = user_id, !.subtotal = subtotal, !.total_amount = subtotal]

\* a user as get_or_create_user stores it
InitUser(telegram_user) ==
    [NullUser EXCEPT !.telegram_id = PyStr(telegram_user.id),
                     !.username = telegram_user.username]

\* the store after two checkouts and two payment creations
InitStore ==
    /\ payments = ("np_1" :> InitPayment(1)) @@ ("np_2" :> InitPayment(2))
    /\ users = (1 :> InitUser([id |-> 101, username |-> "alice"])) @@
               (2 :> InitUser([id |-> 102, username |-> "bob"]))
    /\ loyalty_transactions = <<>>

\* everything but the store
InitProcesses ==
    /\ proc = [w \in Workers |-> IdleProc]
    /\ notifications = 0
    /\ next_token = 0
    /\ award_calls = [p \in PaymentIds |-> 0]
    /\ delivery_calls = [p \in PaymentIds |-> 0]
    /\ finished_recorded = {}
    /\ bot = IdleBot
    /\ user_carts = <<>>
    /\ updates = 0
    /\ calc = NoCalc

Init ==
    /\ InitStore
    /\ orders = (1 :> InitOrder(1, 5000)) @@ (2 :> InitOrder(2, 50))
    /\ order_items = (1 :> <<NewItem(1), NewItem(2)>>) @@ (2 :> <<NewItem(3)>>)
    /\ InitProcesses

(***************************************************************************)
(* process_ipn_callback, first part: validation, lookup, in-memory update  *)
(***************************************************************************)
RequiredFieldMissing_OnlyId(payment_id, payment_status) == Falsy(payment_id)

\* line 168
RequiredFieldMissing(payment_id, payment_status) ==
    Falsy(payment_id) \/ Falsy(payment_status)

TriggersFulfillment_IgnoresOld(old_status, new_status) == new_status = "FINISHED"

\* line 197
TriggersFulfillment(old_status, new_status) ==
    new_status = "FINISHED" /\ old_status # "FINISHED"

\* payment_ipn lines 587-590
HandlerReturn(success) == IF success THEN ReturnOk ELSE ReturnErrorTuple400

\* "return False" of lines 170 and 183, handed back through payment_ipn
Rejected(me) ==
    [me EXCEPT !.result = "false", !.ret = HandlerReturn(FALSE), !.pc = "respond"]

\* lines 185-201 on a payment that was found
ApplyNotification(me, payment_id, ipn_data) ==
    LET payment == payments[payment_id]
        old_status == payment.payment_status
        new_status == map_payment_status(ipn_data.payment_status)
        mem == [payment EXCEPT
                   !.payment_status = new_status,
                   !.actually_paid = GetNum(ipn_data.fields.actually_paid, 0),
                   !.actually_paid_currency = ipn_data.fields.actually_paid_currency,
                   !.txn_id = ipn_data.fields.txid,
                   !.network = ipn_data.fields.network]
        finishing == TriggersFulfillment(old_status, new_status)
        order == orders[payment.order_id]
    IN  [me EXCEPT
            !.pid = payment_id, !.loaded = payment, !.mem = mem,
            !.old_status = old_status, !.new_status = new_status,
            !.finishing = finishing, !.order_id = payment.order_id,
            !.order_l = IF finishing THEN order ELSE NullOrder,
            !.order_m = IF finishing
                        THEN [order EXCEPT !.payment_status = "FINISHED", !.status = "PAID"]
                        ELSE NullOrder,
            !.pc = IF finishing THEN "award" ELSE "commit"]

\* lines 177-179: the rows of db.query(Payment).filter(Payment.payment_id == payment_id)
query_payment_NoFilter(payment_id) == DOMAIN payments

query_payment(payment_id) == {p \in DOMAIN payments : p = payment_id}

process_ipn_callback_begin(me0, ipn_data) ==
    LET me == [me0 EXCEPT !.called = TRUE]
        payment_id == ipn_data.payment_id
        payment_status == ipn_data.payment_status
        found == query_payment(payment_id)
        searched == [me EXCEPT !.queried = TRUE]
    IN  IF RequiredFieldMissing(payment_id, payment_status) THEN Rejected(me)
        ELSE IF found = {} THEN Rejected(searched)
        ELSE ApplyNotification(searched, CHOOSE p \in found : TRUE, ipn_data)

\* lines 573-594 up to the first step of process_ipn_callback that waits
Handle(me, req) ==
    LET raised == [me EXCEPT !.ret = ReturnErrorTuple500, !.pc = "respond"]
    IN  IF ~SignatureAccepted(req) THEN raised     \* HTTPException, caught at 592
        ELSE IF req.body.malformed THEN raised     \* json.loads raises
        ELSE process_ipn_callback_begin(me, req.body)

payment_ipn(w, req, max) ==
    /\ proc[w].pc = "idle"
    /\ notifications < max
    /\ notifications' = notifications + 1
    /\ proc' = [proc EXCEPT ![w] =
          Handle([IdleProc EXCEPT !.req = req, !.lt0 = Len(loyalty_transactions)], req)]
    /\ UNCHANGED <<payments, orders, users, loyalty_transactions, order_items,
                   next_token, award_calls, delivery_calls, finished_recorded,
                   bot, user_carts, updates, calc>>

(***************************************************************************)
(* _award_loyalty_points                                                   *)
(***************************************************************************)
\* lines 269-276
LoyaltyRow(order_id, order, points_earned) ==
    [user_id |-> order.user_id, order_id |-> order_id, points |-> points_earned,
     type |-> "earned"]

AwardedUser_NoOrderCount(user, order, points_earned) ==
    [user EXCEPT !.loyalty_points = @ + points_earned,
                 !.total_spent = @ + order.total_amount]

\* lines 264-266, on the User object of the notification's session
AwardedUser(user, order, points_earned) ==
    [user EXCEPT !.loyalty_points = @ + points_earned,
                 !.total_spent = @ + order.total_amount,
                 !.total_orders = @ + 1]

\* the handler ran to its end (line 281)
AwardDone(me, user, user_m) ==
    [me EXCEPT !.awarded = @ + 1, !.user_loaded = TRUE, !.user_l = user,
               !.user_m = user_m, !.pc = "delivery"]

AwardRaised_Propagates(me, user, user_m) ==
    [me EXCEPT !.awarded = @ + 1, !.faults = @ \cup {"award"},
               !.result = "false", !.ret = HandlerReturn(FALSE), !.pc = "respond"]

\* db.commit() of line 279 raised: lines 283-287 close the session and log; the
\* increments of lines 264-266 stay on the User object
AwardRaised(me, user, user_m) ==
    [AwardDone(me, user, user_m) EXCEPT !.faults = @ \cup {"award"}]

\* The handler's own session commits the LoyaltyTransaction at once (line 279);
\* when that insert raises, the except of line 286 logs it and the handler returns.
_award_loyalty_points(w) ==
    /\ proc[w].pc = "award"
    /\ LET me == proc[w]
           order == me.order_m
           points_earned == PyInt(order.total_amount)
       IN  /\ award_calls' = [award_calls EXCEPT ![me.pid] = @ + 1]
           /\ IF points_earned <= 0
              THEN /\ proc' = [proc EXCEPT ![w] = [me EXCEPT !.awarded = @ + 1,
                                                             !.pc = "delivery"]]
                   /\ UNCHANGED loyalty_transactions
              ELSE \E inserted \in BOOLEAN :
                   LET user == users[order.user_id]
                       user_m == AwardedUser(user, order, points_earned)
                   IN
                   /\ proc' = [proc EXCEPT ![w] =
                         IF inserted THEN AwardDone(me, user, user_m)
                         ELSE AwardRaised(me, user, user_m)]
                   /\ loyalty_transactions' =
                         IF inserted
                         THEN Append(loyalty_transactions,
                                     LoyaltyRow(me.order_id, order, points_earned))
                         ELSE loyalty_transactions
    /\ UNCHANGED <<payments, orders, users, order_items, notifications, next_token,
                   delivery_calls, finished_recorded,
                   bot, user_carts, updates, calc>>

(***************************************************************************)
(* _process_digital_delivery                                               *)
(***************************************************************************)
IsDigital(item) == Products[item.product_id].product_type = "DIGITAL"

HasFile(item) == ~Falsy(Products[item.product_id].digital_file_url)

\* number of uuid4 tokens drawn for the items before position i
TokensBefore(items, i) ==
    Cardinality({j \in 1..(i - 1) : IsDigital(items[j]) /\ HasFile(items[j])})

\* lines 295-312 for one line item; token is the uuid4 drawn if a file exists
DeliveredItem(item, token) ==
    LET product == Products[item.product_id]
        days == OrDefault(product.download_expiry_days, 30)
        link == [token |-> token, expires_days |-> days,
                 download_limit |-> OrDefault(product.download_limit, 5)]
    IN  IF IsDigital(item)
        THEN [item EXCEPT
                 !.download_links = [null |-> FALSE,
                                     links |-> IF HasFile(item) THEN <<link>> ELSE <<>>],
                 !.download_expires_at = days]
        ELSE item

\* the loop of line 294 run over the first "done" items
DeliveredItems(items, done, first_token) ==
    [i \in 1..Len(items) |->
        IF i <= done
        THEN DeliveredItem(items[i], first_token + TokensBefore(items, i) + 1)
        ELSE items[i]]

\* Lines 207-208 and the handler.  The loop may raise at any item (the lazy load
\* of item.product); the items before it are already changed in memory, and the
\* except of line 322 logs it.
_process_digital_delivery(w) ==
    /\ proc[w].pc = "delivery"
    /\ LET me == proc[w]
           items == order_items[me.order_id]
       IN  IF items = <<>>
           THEN /\ proc' = [proc EXCEPT ![w] = [me EXCEPT !.pc = "commit"]]
                /\ UNCHANGED <<next_token, delivery_calls>>
           ELSE \E done \in 0..Len(items) :
                /\ proc' = [proc EXCEPT ![w] =
                      [me EXCEPT !.delivered = @ + 1,
                                 !.items_l = items,
                                 !.items_m = DeliveredItems(items, done, next_token),
                                 !.faults = IF done = Len(items) THEN @
                                            ELSE @ \cup {"delivery"},
                                 !.pc = "commit"]]
                /\ next_token' = next_token + TokensBefore(items, done + 1)
                /\ delivery_calls' = [delivery_calls EXCEPT ![me.pid] = @ + 1]
    /\ UNCHANGED <<payments, orders, users, loyalty_transactions, order_items,
                   notifications, award_calls, finished_recorded,
                   bot, user_carts, updates, calc>>

(***************************************************************************)
(* process_ipn_callback, last part: db.commit() and the return value       *)
(***************************************************************************)
CommitOutcome_AlwaysSuccess(me, committed) ==
    [me EXCEPT !.result = "true",
               !.ret = HandlerReturn(TRUE),
               !.faults = IF committed THEN @ ELSE @ \cup {"commit"},
               !.pc = "respond"]

\* line 213 after a commit that went through, line 220 after one that raised
CommitOutcome(me, committed) ==
    [me EXCEPT !.result = IF committed THEN "true" ELSE "false",
               !.ret = HandlerReturn(committed),
               !.faults = IF committed THEN @ ELSE @ \cup {"commit"},
               !.pc = "respond"]

\* db.commit() of line 210, which goes through or raises (outcomes \subseteq BOOLEAN)
commit_outcomes(w, outcomes) ==
    /\ proc[w].pc = "commit"
    /\ LET me == proc[w]
           user_id == orders[me.order_id].user_id
       IN  \E committed \in outcomes :
           /\ proc' = [proc EXCEPT ![w] = CommitOutcome(me, committed)]
           /\ IF committed
              THEN /\ payments' = [payments EXCEPT
                                      ![me.pid] = Flush(@, me.loaded, me.mem)]
                   /\ orders' = [orders EXCEPT
                                    ![me.order_id] = Flush(@, me.order_l, me.order_m)]
                   /\ users' = [users EXCEPT
                                   ![user_id] = Flush(@, me.user_l, me.user_m)]
                   /\ order_items' = [order_items EXCEPT
                                         ![me.order_id] = FlushItems(@, me.items_l, me.items_m)]
                   /\ finished_recorded' =
                        IF Flush(payments[me.pid], me.loaded, me.mem).payment_status = "FINISHED"
                        THEN finished_recorded \cup {me.pid}
                        ELSE finished_recorded
              ELSE UNCHANGED <<payments, orders, users, order_items, finished_recorded>>
    /\ UNCHANGED <<loyalty_transactions, notifications, next_token, award_calls,
                   delivery_calls,
                   bot, user_carts, updates, calc>>

commit(w) == commit_outcomes(w, BOOLEAN)

(***************************************************************************)
(* The HTTP response leaves the worker                                     *)
(***************************************************************************)
respond(w) ==
    /\ proc[w].pc = "respond"
    /\ proc' = [proc EXCEPT ![w] = IdleProc]
    /\ UNCHANGED <<payments, orders, users, loyalty_transactions, order_items,
                   notifications, next_token, award_calls, delivery_calls, finished_recorded,
                   bot, user_carts, updates, calc>>

\* The response leaves and the gateway delivers the same notification again
\* (a retransmission), which the same worker takes next.
payment_ipn_redelivery(w, max) ==
    /\ proc[w].pc = "respond"
    /\ ~proc[w].replay
    /\ notifications < max
    /\ notifications' = notifications + 1
    /\ LET me == proc[w]
           first == [result |-> me.result, old_status |-> me.old_status,
                     awarded |-> me.awarded, delivered |-> me.delivered,
                     faults |-> me.faults, store |-> Store]
       IN  proc' = [proc EXCEPT ![w] =
              Handle([IdleProc EXCEPT !.req = me.req,
                                      !.lt0 = Len(loyalty_transactions),
                                      !.replay = TRUE, !.first = first], me.req)]
    /\ UNCHANGED <<payments, orders, users, loyalty_transactions, order_items,
                   next_token, award_calls, delivery_calls, finished_recorded,
                   bot, user_carts, updates, calc>>

(***************************************************************************)
(* The Telegram bot (src/bot): one update handler at a time.  A handler is  *)
(* cut where it waits for the network; what lies between two such points   *)
(* runs without interruption on the event loop.                            *)
(***************************************************************************)
\* update.effective_user of the updates the bot receives
TelegramUsers == {[id |-> 101, username |-> "alice_renamed"],
                  [id |-> 103, username |-> "carol"]}

\* rows of db.query(User).filter(User.telegram_id == str(telegram_user.id))
query_user(telegram_user) ==
    {u \in DOMAIN users : users[u].telegram_id = PyStr(telegram_user.id)}

\* the id an autoincrement primary key gives the next row of a table
NextId(table) == IF DOMAIN table = {} THEN 1
                 ELSE (CHOOSE m \in DOMAIN table : \A k \in DOMAIN table : k <= m) + 1

get_or_create_user_Recreates(telegram_user) ==
    LET found == query_user(telegram_user) IN
    IF found # {}
    THEN LET u == CHOOSE u \in found : TRUE IN
         [users |-> [users EXCEPT ![u] = InitUser(telegram_user)], id |-> u]
    ELSE [users |-> users @@ (NextId(users) :> InitUser(telegram_user)),
          id |-> NextId(users)]

\* utils.py lines 109-154: the users table afterwards and the id of the row returned
get_or_create_user(telegram_user) ==
    LET found == query_user(telegram_user) IN
    IF found # {}
    THEN LET u == CHOOSE u \in found : TRUE IN
         [users |-> [users EXCEPT ![u].username = telegram_user.username], id |-> u]
    ELSE [users |-> users @@ (NextId(users) :> InitUser(telegram_user)),
          id |-> NextId(users)]

\* dict.get(key, {}) on user_carts; {} is the empty function
CartOf(key) == IF key \in DOMAIN user_carts THEN user_carts[key] ELSE <<>>

\* cart.get(product_id, 0)
CartQuantity(cart, product_id) ==
    IF product_id \in DOMAIN cart THEN cart[product_id] ELSE 0

\* lines 471-476: the cart is filed under the integer update.effective_user.id
AddedToCart(telegram_user, product_id, quantity) ==
    LET key == IntKey(telegram_user.id)
        cart == CartOf(key)
        cart2 == [q \in DOMAIN cart \cup {product_id} |->
                     IF q = product_id THEN CartQuantity(cart, product_id) + quantity
                     ELSE cart[q]]
    IN  [k \in DOMAIN user_carts \cup {key} |-> IF k = key THEN cart2 ELSE user_carts[k]]

\* the products of a cart that the catalogue holds, in ascending id
RECURSIVE CartLines(_, _)
CartLines(cart, ids) ==
    IF ids = {} THEN <<>>
    ELSE LET product_id == CHOOSE i \in ids : \A j \in ids : i <= j
             rest == CartLines(cart, ids \ {product_id})
         IN  IF product_id \in DOMAIN Products
             THEN <<[product_id |-> product_id, quantity |-> cart[product_id],
                     unit_price |-> Products[product_id].price,
                     total_price |-> Products[product_id].price * cart[product_id]]>> \o rest
             ELSE rest

RECURSIVE SumOf(_, _)
SumOf(lines, field) ==
    IF lines = <<>> THEN 0 ELSE Head(lines)[field] + SumOf(Tail(lines), field)

\* lines 509-532: Order(...) of a cart
CheckoutOrder(user_id, cart) ==
    LET subtotal == SumOf(CartLines(cart, DOMAIN cart), "total_price")
    IN  [NullOrder EXCEPT !.user_id = user_id, !.status = "PENDING",
                          !.subtotal = subtotal, !.total_amount = subtotal]

\* lines 538-548: one OrderItem per cart line
CheckoutItems(cart) ==
    LET lines == CartLines(cart, DOMAIN cart)
    IN  [i \in 1..Len(lines) |-> NewItem(lines[i].product_id)]

\* handle_cart_action with "cart_add_<product>_<quantity>", lines 463-476
handle_cart_action_add(telegram_user, product_id, quantity) ==
    /\ bot.pc = "idle"
    /\ updates < MaxUpdates
    /\ updates' = updates + 1
    /\ users' = get_or_create_user(telegram_user).users
    /\ user_carts' = AddedToCart(telegram_user, product_id, quantity)
    /\ UNCHANGED <<payments, orders, loyalty_transactions, order_items, proc,
                   notifications, next_token, award_calls, delivery_calls,
                   finished_recorded, bot, calc>>

\* handle_cart_action with "cart_checkout": lines 463-464, then start_checkout
\* lines 494-554, which looks the cart up under the string User.telegram_id
start_checkout(telegram_user) ==
    /\ bot.pc = "idle"
    /\ updates < MaxUpdates
    /\ updates' = updates + 1
    /\ LET got == get_or_create_user(telegram_user)
           key == got.users[got.id].telegram_id
           cart == CartOf(key)
           order_id == NextId(orders)
       IN  /\ users' = got.users
           /\ IF cart = <<>>
              THEN UNCHANGED <<orders, order_items, user_carts>>
              ELSE /\ orders' = orders @@ (order_id :> CheckoutOrder(got.id, cart))
                   /\ order_items' = order_items @@ (order_id :> CheckoutItems(cart))
                   /\ user_carts' = [k \in DOMAIN user_carts \ {key} |-> user_carts[k]]
    /\ UNCHANGED <<payments, loyalty_transactions, proc, notifications, next_token,
                   award_calls, delivery_calls, finished_recorded, bot, calc>>

\* handle_payment_action with "payment_crypto_<order>_<currency>": lines 618-619,
\* then process_crypto_payment up to the call of the gateway (lines 636-642)
handle_payment_action(telegram_user, order_id) ==
    /\ bot.pc = "idle"
    /\ updates < MaxUpdates
    /\ updates' = updates + 1
    /\ users' = get_or_create_user(telegram_user).users
    /\ bot' = [IdleBot EXCEPT !.failed = bot.failed,
                              !.telegram_user = telegram_user.id, !.order_id = order_id,
                              !.found = order_id \in DOMAIN orders,
                              !.pc = IF order_id \in DOMAIN orders
                                     THEN "create_payment" ELSE "reply"]
    /\ UNCHANGED <<payments, orders, loyalty_transactions, order_items, proc,
                   notifications, next_token, award_calls, delivery_calls,
                   finished_recorded, user_carts, calc>>

\* how the POST to /v1/payment ends
GatewayOutcomes == {"ok", "network_error", "timeout", "http_error", "bad_json"}

create_payment_QuoteOnTimeout(outcome, fresh_id) ==
    IF outcome \in {"ok", "timeout"}
    THEN [ok |-> TRUE, failure |-> IF outcome = "ok" THEN "none" ELSE outcome,
          payment_id |-> fresh_id]
    ELSE [NoQuote EXCEPT !.failure = outcome]

\* nowpayments.py lines 69-99: the JSON of a 2xx answer; any exception gives None
create_payment(outcome, fresh_id) ==
    IF outcome = "ok"
    THEN [ok |-> TRUE, failure |-> "none", payment_id |-> fresh_id]
    ELSE [NoQuote EXCEPT !.failure = outcome]

\* the id the gateway gives the next payment it creates
FreshPaymentId ==
    NewPaymentIds[Cardinality({i \in 1..Len(NewPaymentIds) :
                                  NewPaymentIds[i] \in DOMAIN payments}) + 1]

\* process_crypto_payment lines 642-667: the gateway answers, the Payment is stored
process_crypto_payment(outcome) ==
    /\ bot.pc = "create_payment"
    /\ LET payment_data == create_payment(outcome, FreshPaymentId)
       IN  /\ bot' = [bot EXCEPT !.quote = payment_data, !.pc = "reply",
                                 !.failed = IF payment_data.ok THEN @
                                            ELSE @ \cup {bot.order_id}]
           /\ payments' = IF payment_data.ok
                          THEN payments @@ (payment_data.payment_id :> InitPayment(bot.order_id))
                          ELSE payments
    /\ UNCHANGED <<orders, users, loyalty_transactions, order_items, proc,
                   notifications, next_token, award_calls, delivery_calls,
                   finished_recorded, user_carts, updates, calc>>

\* the message that ends the handler (lines 638, 649, 697-709)
bot_reply ==
    /\ bot.pc = "reply"
    /\ bot' = [IdleBot EXCEPT !.failed = bot.failed]
    /\ UNCHANGED <<payments, orders, users, loyalty_transactions, order_items, proc,
                   notifications, next_token, award_calls, delivery_calls,
                   finished_recorded, user_carts, updates, calc>>

(***************************************************************************)
(* The shop operator's console.  Its code is not part of the sources at    *)
(* hand; the action follows the order status machine of the specification  *)
(* (section 4.3): PENDING -> PAID -> PROCESSING -> SHIPPED -> DELIVERED,    *)
(* CANCELLED and REFUNDED from PENDING or PAID, and PAID set by the         *)
(* reconciliation engine only.                                             *)
(***************************************************************************)
OperatorTransitions ==
    {<<"PAID", "PROCESSING">>, <<"PROCESSING", "SHIPPED">>, <<"SHIPPED", "DELIVERED">>,
     <<"PENDING", "CANCELLED">>, <<"PAID", "CANCELLED">>,
     <<"PENDING", "REFUNDED">>, <<"PAID", "REFUNDED">>}

operator_set_order_status(order_id, status) ==
    /\ <<orders[order_id].status, status>> \in OperatorTransitions
    /\ orders' = [orders EXCEPT ![order_id].status = status]
    /\ UNCHANGED <<payments, users, loyalty_transactions, order_items, proc,
                   notifications, next_token, award_calls, delivery_calls,
                   finished_recorded, bot, user_carts, updates, calc>>

(***************************************************************************)
(* Specifications                                                          *)
(***************************************************************************)
WorkerStep(w, max) ==
    \/ \E req \in Requests : payment_ipn(w, req, max)
    \/ _award_loyalty_points(w)
    \/ _process_digital_delivery(w)
    \/ commit(w)
    \/ respond(w)
    \/ payment_ipn_redelivery(w, max)

\* several workers (main.py: workers=4 outside debug), each with its own sessions
Next == \E w \in Workers : WorkerStep(w, MaxConcurrentNotifications)

Spec == Init /\ [][Next]_vars

\* one worker: notifications are applied one after the other
NextSeq == WorkerStep(SeqWorker, MaxNotifications)

SpecSeq == Init /\ [][NextSeq]_vars

(***************************************************************************)
(* Order totals (src/bot/utils.py).  Amounts are cents, weights whole       *)
(* kilograms; a dict entry that may be missing is <<>> or <<value>>.        *)
(***************************************************************************)
\* table discount_codes; rows are never written by the modelled code
DiscountCodes ==
    ("SAVE10" :> [type |-> "percentage", value |-> 10, minimum_amount |-> 0,
                  maximum_amount |-> 0, usage_limit |-> 0, current_usage |-> 0,
                  is_active |-> TRUE]) @@
    ("TRIPLE" :> [type |-> "percentage", value |-> 300, minimum_amount |-> 0,
                  maximum_amount |-> 0, usage_limit |-> 0, current_usage |-> 0,
                  is_active |-> TRUE]) @@
    ("FLAT70" :> [type |-> "fixed_amount", value |-> 7000, minimum_amount |-> 2000,
                  maximum_amount |-> 0, usage_limit |-> 5, current_usage |-> 1,
                  is_active |-> TRUE]) @@
    ("HALF" :> [type |-> "percentage", value |-> 50, minimum_amount |-> 0,
                maximum_amount |-> 500, usage_limit |-> 0, current_usage |-> 0,
                is_active |-> TRUE]) @@
    ("SPENT" :> [type |-> "fixed_amount", value |-> 100, minimum_amount |-> 0,
                 maximum_amount |-> 0, usage_limit |-> 1, current_usage |-> 1,
                 is_active |-> TRUE]) @@
    ("SHIPFREE" :> [type |-> "free_shipping", value |-> 0, minimum_amount |-> 0,
                    maximum_amount |-> 0, usage_limit |-> 0, current_usage |-> 0,
                    is_active |-> TRUE]) @@
    ("RETIRED" :> [type |-> "fixed_amount", value |-> 100, minimum_amount |-> 0,
                   maximum_amount |-> 0, usage_limit |-> 0, current_usage |-> 0,
                   is_active |-> FALSE])

\* str.upper() on the codes a customer is modelled to type
Upper(s) ==
    CASE s = "save10" -> "SAVE10"
      [] s = "Flat70" -> "FLAT70"
      [] OTHER -> s

Min(a, b) == IF a <= b THEN a ELSE b

\* lines 366-413; the validity dates are not modelled (every code is in date)
calculate_discount(subtotal, discount_code) ==
    LET found == {c \in DOMAIN DiscountCodes :
                     c = Upper(discount_code) /\ DiscountCodes[c].is_active}
    IN  IF found = {} THEN 0
        ELSE LET discount == DiscountCodes[CHOOSE c \in found : TRUE]
                 amount == IF discount.type = "percentage"
                           THEN (subtotal * discount.value) \div 100
                           ELSE discount.value
                 capped == IF discount.maximum_amount # 0
                           THEN Min(amount, discount.maximum_amount) ELSE amount
             IN  IF discount.minimum_amount # 0 /\ subtotal < discount.minimum_amount
                 THEN 0
                 ELSE IF discount.usage_limit # 0
                         /\ discount.current_usage >= discount.usage_limit THEN 0
                 ELSE IF discount.type \notin {"percentage", "fixed_amount"} THEN 0
                 ELSE Min(capped, subtotal)

RECURSIVE TotalWeight(_)
TotalWeight(items) ==
    IF items = <<>> THEN 0
    ELSE Head(items).weight * Head(items).quantity[1] + TotalWeight(Tail(items))

\* lines 420-435
calculate_shipping(items) ==
    LET total_weight == TotalWeight(items)
    IN  IF total_weight <= 0 THEN 0
        ELSE IF total_weight <= 1 THEN 500
        ELSE IF total_weight <= 5 THEN 1000
        ELSE 1500

RECURSIVE Subtotal(_)
Subtotal(items) ==
    IF items = <<>> THEN 0
    ELSE Head(items).price[1] * Head(items).quantity[1] + Subtotal(Tail(items))

\* item["price"] or item["quantity"] of some item raises KeyError
RaisesKeyError(items) ==
    \E i \in 1..Len(items) : items[i].price = <<>> \/ items[i].quantity = <<>>

calculate_order_total_DropsDiscount(items, discount_code) ==
    IF RaisesKeyError(items) THEN ZeroTotals
    ELSE LET subtotal == Subtotal(items)
             discount_amount == IF Falsy(discount_code) THEN 0
                                ELSE calculate_discount(subtotal, discount_code)
             shipping_amount == IF \E i \in 1..Len(items) : items[i].requires_shipping
                                THEN calculate_shipping(items) ELSE 0
         IN  [subtotal |-> subtotal, discount_amount |-> discount_amount,
              tax_amount |-> 0, shipping_amount |-> shipping_amount,
              total_amount |-> subtotal + shipping_amount]

\* lines 321-359; tax_rate is 0.0, so tax_amount is 0
calculate_order_total(items, discount_code) ==
    IF RaisesKeyError(items) THEN ZeroTotals
    ELSE LET subtotal == Subtotal(items)
             discount_amount == IF Falsy(discount_code) THEN 0
                                ELSE calculate_discount(subtotal, discount_code)
             taxable_amount == subtotal - discount_amount
             tax_amount == taxable_amount * 0
             shipping_amount == IF \E i \in 1..Len(items) : items[i].requires_shipping
                                THEN calculate_shipping(items) ELSE 0
         IN  [subtotal |-> subtotal, discount_amount |-> discount_amount,
              tax_amount |-> tax_amount, shipping_amount |-> shipping_amount,
              total_amount |-> subtotal - discount_amount + tax_amount + shipping_amount]

\* the items and codes the function is called with
Ebook == [price |-> <<1999>>, quantity |-> <<1>>, requires_shipping |-> FALSE, weight |-> 0]

Postcard == [price |-> <<150>>, quantity |-> <<1>>, requires_shipping |-> TRUE, weight |-> 1]

Books == [price |-> <<2500>>, quantity |-> <<2>>, requires_shipping |-> TRUE, weight |-> 2]

Anvil == [price |-> <<10000>>, quantity |-> <<1>>, requires_shipping |-> TRUE, weight |-> 9]

Sample == [price |-> <<0>>, quantity |-> <<0>>, requires_shipping |-> TRUE, weight |-> 1]

Unpriced == [price |-> <<>>, quantity |-> <<1>>, requires_shipping |-> FALSE, weight |-> 0]

Uncounted == [price |-> <<500>>, quantity |-> <<>>, requires_shipping |-> TRUE, weight |-> 1]

CalcItemLists ==
    {<<>>, <<Ebook>>, <<Postcard>>, <<Books>>, <<Anvil>>, <<Sample>>, <<Unpriced>>,
     <<Ebook, Books>>, <<Postcard, Anvil>>, <<Books, Uncounted>>}

CalcCodes == {Absent, "", "save10", "Flat70", "TRIPLE", "HALF", "SPENT", "SHIPFREE",
              "RETIRED", "nosuch"}

\* every list without a code and with a percentage code, two lists with every code
CalcInputs ==
    (CalcItemLists \X {Absent, "save10"}) \cup ({<<Ebook, Books>>, <<Anvil>>} \X CalcCodes)

\* the carts the checkout computation is applied to: product id -> quantity
CalcCarts == {(1 :> 1), (3 :> 2), (1 :> 1) @@ (2 :> 1), (2 :> 3) @@ (8 :> 1)}

\* the five amounts of an order row
AmountsOf(order) ==
    [subtotal |-> order.subtotal, discount_amount |-> order.discount_amount,
     tax_amount |-> order.tax_amount, shipping_amount |-> order.shipping_amount,
     total_amount |-> order.total_amount]

\* a call of calculate_order_total; the function keeps no state, so a run
\* records one call
call_calculate_order_total(items, discount_code) ==
    /\ calc = NoCalc
    /\ calc' = [NoCalc EXCEPT !.function = "calculate_order_total", !.items = items,
                              !.discount_code = discount_code,
                              !.result = calculate_order_total(items, discount_code)]
    /\ UNCHANGED <<payments, orders, users, loyalty_transactions, order_items, proc,
                   notifications, next_token, award_calls, delivery_calls,
                   finished_recorded, bot, user_carts, updates>>

\* the amounts of the order that lines 509-532 of start_checkout build from a cart
call_checkout_totals(cart) ==
    /\ calc = NoCalc
    /\ calc' = [NoCalc EXCEPT !.function = "start_checkout", !.cart = cart,
                              !.result = AmountsOf(CheckoutOrder(1, cart))]
    /\ UNCHANGED <<payments, orders, users, loyalty_transactions, order_items, proc,
                   notifications, next_token, award_calls, delivery_calls,
                   finished_recorded, bot, user_carts, updates>>

(***************************************************************************)
(* The shop: the bot's handlers, the operator and one web worker.  The      *)
(* notifications are the gateway's own (validly signed) for the first       *)
(* payment of order 1 and for the first payment created during the run,     *)
(* and one unsigned request.                                               *)
(***************************************************************************)
ShopBodies ==
    [malformed : {FALSE}, payment_id : {"np_1", NewPaymentIds[1]},
     payment_status : {"finished", "confirming"}, fields : {BareFields}]

ShopRequests ==
    {[body |-> b, signature |-> hmac_sha512(ipn_secret, b)] : b \in ShopBodies} \cup
    {[body |-> GatewaySignedBody, signature |-> NoSignature]}

\* the order ids a customer's payment button can carry
ButtonOrderIds == {1, 9}

CartProducts == {1}

ShopWorkerStep(w, max) ==
    \/ \E req \in ShopRequests : payment_ipn(w, req, max)
    \/ _award_loyalty_points(w)
    \/ _process_digital_delivery(w)
    \/ commit(w)
    \/ respond(w)

BotStep ==
    \/ \E telegram_user \in TelegramUsers : start_checkout(telegram_user)
    \/ \E telegram_user \in TelegramUsers, order_id \in ButtonOrderIds :
          handle_payment_action(telegram_user, order_id)
    \/ \E outcome \in GatewayOutcomes : process_crypto_payment(outcome)
    \/ bot_reply

OperatorStep ==
    \E order_id \in DOMAIN orders, status \in OrderStatus :
       operator_set_order_status(order_id, status)

NextShop == ShopWorkerStep(SeqWorker, MaxShopNotifications) \/ BotStep

SpecShop == Init /\ [][NextShop]_vars

\* the gateway's notifications for payment np_1, one for each status it reports
ConsoleRequests ==
    {[body |-> b, signature |-> hmac_sha512(ipn_secret, b)] :
        b \in [malformed : {FALSE}, payment_id : {"np_1"},
               payment_status : {"finished", "confirming", "partially_paid", "failed",
                                 "refunded", "expired"},
               fields : {BareFields}]}

ConsoleWorkerStep(w, max) ==
    \/ \E req \in ConsoleRequests : payment_ipn(w, req, max)
    \/ _award_loyalty_points(w)
    \/ _process_digital_delivery(w)
    \/ commit(w)
    \/ respond(w)

\* the operator's console beside the web worker
NextConsole == ConsoleWorkerStep(SeqWorker, MaxShopNotifications) \/ OperatorStep

SpecConsole == Init /\ [][NextConsole]_vars

(***************************************************************************)
(* Order totals: the two computations of an order's amounts, the carts and  *)
(* the checkout, and the gateway's finished notification for payment np_1.  *)
(***************************************************************************)
TotalsRequests ==
    {[body |-> b, signature |-> hmac_sha512(ipn_secret, b)] :
        b \in [malformed : {FALSE}, payment_id : {"np_1"},
               payment_status : {"finished"}, fields : {FullFields}]}

TotalsWorkerStep(w, max) ==
    \/ \E req \in TotalsRequests : payment_ipn(w, req, max)
    \/ _award_loyalty_points(w)
    \/ _process_digital_delivery(w)
    \/ commit(w)
    \/ respond(w)

CartStep ==
    \/ \E telegram_user \in TelegramUsers, product_id \in CartProducts :
          handle_cart_action_add(telegram_user, product_id, 1)
    \/ \E telegram_user \in TelegramUsers : start_checkout(telegram_user)

CalcStep ==
    \/ \E input \in CalcInputs : call_calculate_order_total(input[1], input[2])
    \/ \E cart \in CalcCarts : call_checkout_totals(cart)

NextTotals == TotalsWorkerStep(SeqWorker, MaxShopNotifications) \/ CartStep \/ CalcStep

SpecTotals == Init /\ [][NextTotals]_vars

(***************************************************************************)
(* One customer with two orders: order 1 of 50.00 and order 2 of 20.00 (a   *)
(* physical item) both belong to user 1; several web workers take the       *)
(* gateway's finished notifications for the two payments.                  *)
(***************************************************************************)
InitSameUser ==
    /\ InitStore
    /\ orders = (1 :> InitOrder(1, 5000)) @@ (2 :> InitOrder(1, 2000))
    /\ order_items = (1 :> <<NewItem(1), NewItem(2)>>) @@ (2 :> <<NewItem(2)>>)
    /\ InitProcesses

SameUserRequests ==
    {[body |-> b, signature |-> hmac_sha512(ipn_secret, b)] :
        b \in [malformed : {FALSE}, payment_id : {"np_1", "np_2"},
               payment_status : {"finished"}, fields : {BareFields}]}

SameUserWorkerStep(w, max) ==
    \/ \E req \in SameUserRequests : payment_ipn(w, req, max)
    \/ _award_loyalty_points(w)
    \/ _process_digital_delivery(w)
    \/ commit(w)
    \/ respond(w)

NextSameUser == \E w \in Workers : SameUserWorkerStep(w, MaxConcurrentNotifications)

SpecSameUser == InitSameUser /\ [][NextSameUser]_vars

(***************************************************************************)
(* Vocabulary of the properties                                            *)
(***************************************************************************)
\* the signature header is present and is the keyed digest of this very body
ValidlySigned(req) ==
    /\ req.signature.key # Absent
    /\ req.signature = [key |-> ipn_secret, payload |-> req.body]

\* this step is worker w taking a request off the wire
Receives(w) == notifications' = notifications + 1 /\ proc'[w] # proc[w]

\* the body parses and names a payment id and a status
WellFormed(body) ==
    ~body.malformed /\ body.payment_id \notin {Absent, ""}
                    /\ body.payment_status \notin {Absent, ""}

UserOf(order_id) == orders[order_id].user_id

RowsOfOrder(order_id) ==
    {i \in 1..Len(loyalty_transactions) : loyalty_transactions[i].order_id = order_id}

\* C1: once a commit has stored FINISHED for a payment, no later notification
\* invokes _award_loyalty_points or _process_digital_delivery for it again.
C1_NoFulfillmentAfterFinishedRecorded ==
    [][\A p \in finished_recorded :
          /\ award_calls'[p] = award_calls[p]
          /\ delivery_calls'[p] = delivery_calls[p]]_vars

\* C2: when the gateway retransmits a notification for a known payment and the
\* store accepts both commits, the store after the second application equals the
\* store after the first, both applications return success, the second runs no
\* fulfillment handler, and the first ran them exactly when the stored status
\* was not yet FINISHED and the notification says finished.
C2_ReplayIsIdempotent ==
    \A w \in Workers :
        LET me == proc[w] IN
        (/\ me.pc = "respond" /\ me.replay
         /\ WellFormed(me.req.body) /\ ValidlySigned(me.req)
         /\ me.req.body.payment_id \in DOMAIN payments
         /\ "commit" \notin (me.faults \cup me.first.faults))
        => /\ Store = me.first.store
           /\ me.result = "true" /\ me.first.result = "true"
           /\ me.awarded = 0 /\ me.delivered = 0
           /\ me.first.awarded =
                 (IF me.new_status = "FINISHED" /\ me.first.old_status # "FINISHED"
                  THEN 1 ELSE 0)
           /\ me.first.delivered = me.first.awarded

C2_Witness ==
    \E w \in Workers :
        /\ proc[w].pc = "respond" /\ proc[w].replay
        /\ proc[w].req.body.payment_status = "finished"
        /\ proc[w].result = "true" /\ proc[w].first.result = "true"
        /\ proc[w].first.awarded = 1 /\ proc[w].awarded = 0
        /\ Len(loyalty_transactions) = 1

\* C3: two workers applying the same finished notification for one payment never
\* both see a stored status other than FINISHED and both start fulfillment, and
\* the order ends with at most one LoyaltyTransaction row.
C3_OneFulfillmentUnderConcurrency ==
    \A v, w \in Workers :
        (/\ v # w
         /\ proc[v].pc # "idle" /\ proc[w].pc # "idle"
         /\ proc[v].req = proc[w].req
         /\ proc[v].pid = proc[w].pid /\ proc[v].pid # Absent
         /\ proc[v].new_status = "FINISHED")
        => /\ ~(proc[v].finishing /\ proc[w].finishing)
           /\ Cardinality(RowsOfOrder(proc[v].order_id)) <= 1

\* C4: a payment stored with a terminal status keeps that status.
C4_TerminalStatusAbsorbing ==
    [][\A p \in DOMAIN payments :
          payments[p].payment_status \in TerminalStatus
          => payments'[p].payment_status = payments[p].payment_status]_vars

\* C5: a request whose signature header is missing, made with another key, or
\* made over another body is answered without process_ipn_callback being
\* called, without any row being looked up, and with the store unchanged.
C5_BadSignatureTouchesNothing ==
    [][\A w \in Workers :
          (Receives(w) /\ ~ValidlySigned(proc'[w].req))
          => /\ ~proc'[w].called /\ ~proc'[w].queried
             /\ proc'[w].pc = "respond"
             /\ Store' = Store]_vars

C5_Witness ==
    \E w \in Workers :
        /\ proc[w].pc = "respond" /\ ~proc[w].called
        /\ proc[w].req.signature.key = "forged_key"
        /\ proc[w].req.body.payment_id = "np_1"
        /\ proc[w].req.body.payment_status = "finished"
        /\ payments["np_1"].payment_status = "WAITING"

\* C6: a validly signed, well-formed notification whose payment_id is not stored
\* makes process_ipn_callback return failure and changes no row, whatever its
\* payment_status.
C6_UnknownPaymentRejected ==
    [][\A w \in Workers :
          (/\ Receives(w) /\ ValidlySigned(proc'[w].req)
           /\ WellFormed(proc'[w].req.body)
           /\ proc'[w].req.body.payment_id \notin DOMAIN payments)
          => /\ proc'[w].called /\ proc'[w].result = "false"
             /\ proc'[w].pc = "respond"
             /\ Store' = Store]_vars

C6_Witness ==
    \E w \in Workers :
        /\ proc[w].pc = "respond" /\ proc[w].result = "false" /\ proc[w].queried
        /\ ValidlySigned(proc[w].req)
        /\ proc[w].req.body.payment_id = "np_unknown"
        /\ proc[w].req.body.payment_status = "finished"

\* C7: a validly signed notification without payment_id or without
\* payment_status (absent or empty) makes process_ipn_callback return failure
\* before any lookup, and changes no row.
C7_MissingFieldRejected ==
    [][\A w \in Workers :
          (/\ Receives(w) /\ ValidlySigned(proc'[w].req)
           /\ ~proc'[w].req.body.malformed
           /\ ~WellFormed(proc'[w].req.body))
          => /\ proc'[w].called /\ proc'[w].result = "false"
             /\ ~proc'[w].queried
             /\ proc'[w].pc = "respond"
             /\ Store' = Store]_vars

C7_Witness ==
    \E w \in Workers :
        /\ proc[w].pc = "respond" /\ proc[w].result = "false" /\ ~proc[w].queried
        /\ ValidlySigned(proc[w].req)
        /\ proc[w].req.body.payment_id = "np_1"
        /\ proc[w].req.body.payment_status = Absent

\* C8: when a finished notification for a payment not yet FINISHED, whose order
\* total T has floor(T) > 0, is applied and neither handler nor the store
\* fails, the commit leaves the payment FINISHED, the order PAID with
\* payment_status FINISHED, the user's loyalty_points up by floor(T),
\* total_orders up by 1, total_spent up by T, and exactly one new
\* LoyaltyTransaction of +floor(T) for that order and user.
C8_FinishedNotificationApplied ==
    [][\A w \in Workers :
          LET me == proc[w]
              T == orders[me.order_id].total_amount
              u == UserOf(me.order_id)
              n == Len(loyalty_transactions')
          IN
          (/\ me.pc = "commit" /\ me.finishing /\ T \div 100 > 0
           /\ proc'[w].pc = "respond" /\ proc'[w].faults = {})
          => /\ proc'[w].result = "true"
             /\ payments'[me.pid].payment_status = "FINISHED"
             /\ orders'[me.order_id].status = "PAID"
             /\ orders'[me.order_id].payment_status = "FINISHED"
             /\ users'[u].loyalty_points = users[u].loyalty_points + T \div 100
             /\ users'[u].total_orders = users[u].total_orders + 1
             /\ users'[u].total_spent = users[u].total_spent + T
             /\ n = me.lt0 + 1
             /\ loyalty_transactions'[n].points = T \div 100
             /\ loyalty_transactions'[n].order_id = me.order_id
             /\ loyalty_transactions'[n].user_id = u]_vars

C8_Witness ==
    \E w \in Workers :
        /\ proc[w].pc = "respond" /\ proc[w].finishing /\ proc[w].faults = {}
        /\ proc[w].pid = "np_1" /\ proc[w].old_status = "WAITING"
        /\ payments["np_1"].payment_status = "FINISHED"
        /\ orders[1].status = "PAID"
        /\ users[1].loyalty_points = 50
        /\ Len(loyalty_transactions) = 1

\* C9: the webhook answers {"status": "ok"} with a 2xx code when the
\* notification was applied, and a non-2xx code otherwise.
C9_ResponseCodeTellsOutcome ==
    \A w \in Workers :
        proc[w].pc = "respond"
        => LET r == HttpResponse(proc[w].ret) IN
           IF proc[w].result = "true"
           THEN r.status_code \in 200..299 /\ r.json = ReturnOk
           ELSE r.status_code \notin 200..299

\* C10: when a fulfillment handler raises while a first FINISHED notification is
\* applied and the commit of the notification goes through, both handlers
\* were still run, the payment is stored FINISHED, the order PAID with
\* payment_status FINISHED, and process_ipn_callback returns success.
C10_HandlerFailureIsContained ==
    [][\A w \in Workers :
          LET me == proc[w] IN
          (/\ me.finishing
           /\ me.pc # "respond" /\ proc'[w].pc = "respond"
           /\ proc'[w].faults # {} /\ "commit" \notin proc'[w].faults)
          => /\ proc'[w].awarded = 1 /\ proc'[w].delivered = 1
             /\ proc'[w].result = "true"
             /\ payments'[me.pid].payment_status = "FINISHED"
             /\ orders'[me.order_id].status = "PAID"
             /\ orders'[me.order_id].payment_status = "FINISHED"]_vars

C10_Witness ==
    \E w \in Workers :
        /\ proc[w].pc = "respond" /\ proc[w].finishing
        /\ proc[w].faults = {"award", "delivery"}
        /\ proc[w].result = "true"
        /\ payments[proc[w].pid].payment_status = "FINISHED"
        /\ orders[proc[w].order_id].status = "PAID"

(***************************************************************************)
(* Claims C11 to C20                                                       *)
(***************************************************************************)
OrdersOfUser(user_id) == {o \in DOMAIN orders : orders[o].user_id = user_id}

\* C11: no order is awarded twice: at most one LoyaltyTransaction row references
\* an order, and a user's order counter never exceeds the number of the user's
\* orders, even when two payments of one order each reach FINISHED.
C11_NoDoubleAward ==
    /\ \A o \in DOMAIN orders : Cardinality(RowsOfOrder(o)) <= 1
    /\ \A u \in DOMAIN users : users[u].total_orders <= Cardinality(OrdersOfUser(u))

\* position of a status on the order status machine; CANCELLED and REFUNDED are final
OrderRank(status) ==
    CASE status = "PENDING" -> 0
      [] status = "PAID" -> 1
      [] status = "PROCESSING" -> 2
      [] status = "SHIPPED" -> 3
      [] status = "DELIVERED" -> 4
      [] OTHER -> 5

\* C12: no step moves an order's status backwards on the order status machine:
\* an order the operator has advanced to PROCESSING, SHIPPED or DELIVERED, or has
\* cancelled or refunded, is never set back to PAID by a later notification.
C12_OrderStatusNeverMovesBack ==
    [][\A o \in DOMAIN orders :
          OrderRank(orders'[o].status) >= OrderRank(orders[o].status)]_vars

NonTerminalStatus == {"PENDING", "WAITING", "CONFIRMING", "CONFIRMED", "SENDING",
                      "PARTIALLY_PAID"}

OpenPaymentsOf(order_id) ==
    {p \in DOMAIN payments : /\ payments[p].order_id = order_id
                             /\ payments[p].payment_status \in NonTerminalStatus}

\* C13: in every reachable state each order has at most one payment whose
\* status is non-terminal, whatever payments the customer opens.
C13_OneOpenPaymentPerOrder ==
    \A o \in DOMAIN orders : Cardinality(OpenPaymentsOf(o)) <= 1

\* total_amount == subtotal - discount_amount + tax_amount + shipping_amount
TotalEquation(a) ==
    a.total_amount = a.subtotal - a.discount_amount + a.tax_amount + a.shipping_amount

\* C14: every stored order satisfies the total equation with a total that is not
\* negative, and so does every result of calculate_order_total (its error
\* fallback included) and of the checkout's computation of an order's amounts.
C14_TotalEquation ==
    /\ \A o \in DOMAIN orders : TotalEquation(orders[o]) /\ orders[o].total_amount >= 0
    /\ calc.function # "none" => TotalEquation(calc.result)
    /\ calc.function = "start_checkout" => calc.result.total_amount >= 0

\* a discounted total with shipping has been computed while order 1 is paid
C14_Witness ==
    /\ calc.function = "calculate_order_total"
    /\ calc.result.discount_amount > 0
    /\ calc.result.shipping_amount > 0
    /\ orders[1].status = "PAID"

\* this step is the bot taking the gateway's answer to a create_payment call
GatewayAnswers == bot.pc = "create_payment" /\ bot'.pc = "reply"

\* C15: when the gateway call fails, create_payment hands back no quote and
\* process_crypto_payment goes on to its reply with no Payment row created and
\* no Order changed; when the call succeeds, a retry after a failure included,
\* exactly one new Payment row is inserted for the order, in status WAITING,
\* under an id no row had, and every earlier row stays as it was.
C15_GatewayFailureCreatesNothing ==
    [][GatewayAnswers =>
          IF bot'.quote.failure # "none"
          THEN /\ ~bot'.quote.ok
               /\ payments' = payments
               /\ orders' = orders
          ELSE /\ bot'.quote.payment_id \notin DOMAIN payments
               /\ DOMAIN payments' = DOMAIN payments \cup {bot'.quote.payment_id}
               /\ \A p \in DOMAIN payments : payments'[p] = payments[p]
               /\ payments'[bot'.quote.payment_id].order_id = bot.order_id
               /\ payments'[bot'.quote.payment_id].payment_status = "WAITING"
               /\ orders' = orders]_vars

\* a retry for an order whose earlier attempt failed has just stored its payment
C15_Witness ==
    /\ bot.pc = "reply"
    /\ bot.quote.ok
    /\ bot.order_id \in bot.failed
    /\ bot.quote.payment_id \in DOMAIN payments

\* C16: when the payments of two orders of one user have both been committed as
\* FINISHED, by whatever interleaving of the two applications, the user holds
\* the sum of both awards: points, amount spent and order count.
C16_NoLostLoyaltyUpdate ==
    (/\ UserOf(1) = UserOf(2)
     /\ {"np_1", "np_2"} \subseteq finished_recorded
     /\ \A w \in Workers : proc[w].pc = "idle")
    => LET user == users[UserOf(1)]
           T1 == orders[1].total_amount
           T2 == orders[2].total_amount
       IN  /\ user.loyalty_points = (T1 \div 100) + (T2 \div 100)
           /\ user.total_spent = T1 + T2
           /\ user.total_orders = 2

LoyaltyFields(user) == <<user.loyalty_points, user.total_spent, user.total_orders>>

\* this step is worker w committing an application that took a payment of an
\* order of user u into FINISHED and ran the loyalty handler
CommitsAward(w, u) ==
    /\ proc[w].pc = "commit" /\ proc'[w].pc = "respond"
    /\ proc[w].new_status = "FINISHED" /\ proc[w].old_status # "FINISHED"
    /\ proc[w].awarded > 0
    /\ UserOf(proc[w].order_id) = u

\* C17: a step that changes a user's loyalty_points, total_spent or total_orders
\* is the commit of a payment's transition into FINISHED for an order of that
\* user; checkout, payment creation, get_or_create_user and every other
\* notification leave the three fields as they are.
C17_LoyaltyFieldsFrame ==
    [][\A u \in DOMAIN users :
          LoyaltyFields(users'[u]) # LoyaltyFields(users[u])
          => \E w \in Workers : CommitsAward(w, u)]_vars

\* a customer who holds points has been renamed by get_or_create_user and a
\* new customer has been created, by handlers of the bot
C17_Witness ==
    /\ users[1].username = "alice_renamed"
    /\ users[1].loyalty_points > 0
    /\ 3 \in DOMAIN users
    /\ updates = MaxUpdates

\* the notification reports the gateway status "finished", in either case
SaysFinished(req) == req.body.payment_status \in {"finished", "FINISHED"}

\* C18: a step of the notification handler changes an order's status only to
\* PAID, and the application of a notification whose status is not finished
\* (failed, expired, refunded, partially paid, ...) leaves the order's status
\* and payment_status as they are.
C18_EngineDrivesOnlyPaid ==
    [][\A w \in Workers : proc'[w] # proc[w] =>
          \A o \in DOMAIN orders :
             /\ orders'[o].status # orders[o].status => orders'[o].status = "PAID"
             /\ ~SaysFinished(proc[w].req) =>
                   /\ orders'[o].status = orders[o].status
                   /\ orders'[o].payment_status = orders[o].payment_status]_vars

\* a failed, expired, refunded or partially-paid notification has been applied
\* to the payment of an order that is beyond PENDING
C18_Witness ==
    /\ proc[SeqWorker].pc = "respond"
    /\ proc[SeqWorker].result = "true"
    /\ payments["np_1"].payment_status \in {"FAILED", "EXPIRED", "REFUNDED", "PARTIALLY_PAID"}
    /\ orders[1].status \in {"PAID", "PROCESSING"}

\* this step is worker w committing an application that ran the delivery handler
\* for order o, with no handler and no commit having raised
CommitsDelivery(w, o) ==
    /\ proc[w].pc = "commit" /\ proc'[w].pc = "respond"
    /\ proc'[w].result = "true" /\ proc'[w].faults = {}
    /\ proc[w].delivered > 0
    /\ proc[w].order_id = o

\* what the claim asks of line item i of order o after the delivery
ItemDelivered(o, i) ==
    LET before == order_items[o][i]
        after == order_items'[o][i]
        product == Products[after.product_id]
        days == IF product.download_expiry_days = 0 THEN 30 ELSE product.download_expiry_days
        limit == IF product.download_limit = 0 THEN 5 ELSE product.download_limit
    IN  IF product.product_type = "DIGITAL"
        THEN /\ ~after.download_links.null
             /\ Len(after.download_links.links) = 1
             /\ after.download_links.links[1].token > 0
             /\ after.download_links.links[1].download_limit = limit
             /\ after.download_expires_at = days
        ELSE /\ after.download_links = before.download_links
             /\ after.download_expires_at = before.download_expires_at

\* C19: when fulfillment has run for an order, every line item of a DIGITAL
\* product holds a download token with the expiry (the product's days, else 30)
\* and the download limit (the product's limit, else 5), and every line item of
\* a PHYSICAL product keeps its download_links and download_expires_at.
C19_EveryDigitalItemGetsToken ==
    [][\A w \in Workers, o \in DOMAIN orders :
          CommitsDelivery(w, o) =>
             \A i \in 1..Len(order_items'[o]) : ItemDelivered(o, i)]_vars

\* this step is worker w committing, with the commit going through, a
\* notification whose mapped status is the status the store holds for the payment
CommitsSameStatus(w) ==
    /\ proc[w].pc = "commit" /\ proc'[w].pc = "respond"
    /\ "commit" \notin proc'[w].faults
    /\ payments[proc[w].pid].payment_status = proc[w].new_status

\* C20: a notification for a known payment whose mapped status equals the
\* stored status returns success and changes nothing but the payment's
\* incidental fields: the payment's status, the order, the user, the line items
\* and the loyalty transactions are as they were when it arrived, and no
\* fulfillment handler has run.
C20_SameStatusIsNoOp ==
    [][\A w \in Workers : CommitsSameStatus(w) =>
          /\ proc'[w].result = "true" /\ proc'[w].ret = ReturnOk
          /\ proc[w].awarded = 0 /\ proc[w].delivered = 0
          /\ Len(loyalty_transactions') = proc[w].lt0
          /\ payments'[proc[w].pid].payment_status = payments[proc[w].pid].payment_status
          /\ payments'[proc[w].pid].order_id = payments[proc[w].pid].order_id
          /\ \A p \in DOMAIN payments \ {proc[w].pid} : payments'[p] = payments[p]
          /\ orders' = orders /\ users' = users /\ order_items' = order_items
          /\ loyalty_transactions' = loyalty_transactions]_vars

\* a finished notification carrying a transaction id has been applied to a
\* payment that was already FINISHED
C20_Witness ==
    /\ proc[SeqWorker].pc = "respond"
    /\ proc[SeqWorker].result = "true"
    /\ proc[SeqWorker].pid = "np_1"
    /\ proc[SeqWorker].old_status = "FINISHED"
    /\ proc[SeqWorker].new_status = "FINISHED"
    /\ payments["np_1"].txn_id = "tx_1"

(***************************************************************************)
(* The gateway's retry: a notification that was not acknowledged with a    *)
(* 2xx response is delivered again; commits may raise only during the      *)
(* first MaxTransientFailures deliveries.                                  *)
(***************************************************************************)
MaxRetryNotifications == 3

MaxTransientFailures == 2

RetryRequests ==
    {[body |-> b, signature |-> hmac_sha512(ipn_secret, b)] :
        b \in [malformed : {FALSE}, payment_id : {"np_1", "np_2"},
               payment_status : {"finished", "FINISHED"}, fields : {BareFields}]}

\* the response of payment_ipn reaches the gateway, which delivers the same
\* notification again unless the status code is 2xx
gateway_response(w) ==
    /\ proc[w].pc = "respond"
    /\ LET me == proc[w]
       IN  IF HttpResponse(me.ret).status_code \in 200..299
           THEN /\ proc' = [proc EXCEPT ![w] = IdleProc]
                /\ UNCHANGED notifications
           ELSE /\ notifications' = notifications + 1
                /\ proc' = [proc EXCEPT ![w] =
                      Handle([IdleProc EXCEPT !.req = me.req,
                                              !.lt0 = Len(loyalty_transactions)], me.req)]
    /\ UNCHANGED <<payments, orders, users, loyalty_transactions, order_items,
                   next_token, award_calls, delivery_calls, finished_recorded,
                   bot, user_carts, updates, calc>>

\* the steps of a notification once it is on the wire
RetryWorkerStep(w) ==
    \/ _award_loyalty_points(w)
    \/ _process_digital_delivery(w)
    \/ commit_outcomes(w, IF notifications <= MaxTransientFailures
                          THEN BOOLEAN ELSE {TRUE})
    \/ gateway_response(w)

NextRetry ==
    \/ \E req \in RetryRequests : payment_ipn(SeqWorker, req, MaxRetryNotifications)
    \/ RetryWorkerStep(SeqWorker)

\* a handler that was started runs to its response (one event loop, no step
\* waits on anything but the database), and the gateway acts on the response
SpecRetry == Init /\ [][NextRetry]_vars /\ WF_vars(RetryWorkerStep(SeqWorker))

(***************************************************************************)
(* Claims C21 to C30                                                       *)
(***************************************************************************)
\* this step is worker w committing, with no handler and no commit having
\* raised, a payment's transition into FINISHED for order o
CommitsFinished(w, o) ==
    /\ proc[w].pc = "commit" /\ proc'[w].pc = "respond"
    /\ proc'[w].faults = {}
    /\ proc[w].new_status = "FINISHED" /\ proc[w].old_status # "FINISHED"
    /\ proc[w].order_id = o

\* C21: when an order's total is below one whole currency unit, the finished
\* notification leaves the user's loyalty_points, total_spent and total_orders
\* as they are and appends no LoyaltyTransaction row, while the payment becomes
\* FINISHED and the order PAID.
C21_ZeroAwardIsSkipped ==
    [][\A w \in Workers, o \in DOMAIN orders :
          (CommitsFinished(w, o) /\ orders[o].total_amount \div 100 <= 0) =>
             /\ LoyaltyFields(users'[UserOf(o)]) = LoyaltyFields(users[UserOf(o)])
             /\ Len(loyalty_transactions') = proc[w].lt0
             /\ RowsOfOrder(o) = {}
             /\ payments'[proc[w].pid].payment_status = "FINISHED"
             /\ orders'[o].status = "PAID"
             /\ orders'[o].payment_status = "FINISHED"]_vars

\* the finished notification for the payment of the 0.50 order has been applied
C21_Witness ==
    /\ proc[SeqWorker].pc = "respond"
    /\ proc[SeqWorker].result = "true"
    /\ proc[SeqWorker].pid = "np_2"
    /\ proc[SeqWorker].awarded = 1
    /\ payments["np_2"].payment_status = "FINISHED"
    /\ orders[2].status = "PAID"
    /\ LoyaltyFields(users[2]) = <<0, 0, 0>>

RECURSIVE PointsIn(_, _)
\* the sum of the points of the rows of a ledger that belong to a user
PointsIn(rows, user_id) ==
    IF rows = <<>> THEN 0
    ELSE (IF Head(rows).user_id = user_id THEN Head(rows).points ELSE 0)
         + PointsIn(Tail(rows), user_id)

\* C22: in every state of the store a user's loyalty_points is the sum of the
\* points of the LoyaltyTransaction rows stored for the user, also between the
\* handler's commit of the row and the commit of the notification's session,
\* and when the latter fails.
C22_LedgerExplainsBalance ==
    \A u \in DOMAIN users : users[u].loyalty_points = PointsIn(loyalty_transactions, u)

\* C23: a LoyaltyTransaction row is stored for an order only if a payment of the
\* order has been stored as FINISHED and the order has been set to PAID; no
\* failure after the award leaves a row for a payment still in its old status.
C23_NoAwardWithoutFinishedPayment ==
    \A i \in 1..Len(loyalty_transactions) :
       LET o == loyalty_transactions[i].order_id
       IN  /\ \E p \in finished_recorded : payments[p].order_id = o
           /\ orders[o].status = "PAID"

\* C24: without operator actions, whenever a payment is stored as FINISHED its
\* order is stored as PAID with payment_status FINISHED: the two updates of a
\* first finished notification are committed together or not at all.
C24_FinishedPaymentMeansPaidOrder ==
    \A p \in DOMAIN payments :
       payments[p].payment_status = "FINISHED" =>
          /\ orders[payments[p].order_id].status = "PAID"
          /\ orders[payments[p].order_id].payment_status = "FINISHED"

\* a payment opened during the run has been stored as FINISHED
C24_Witness ==
    /\ "np_3" \in DOMAIN payments
    /\ payments["np_3"].payment_status = "FINISHED"
    /\ "np_3" \in finished_recorded

\* the stored status of every payment and of every order
StoredStatuses(ps, os) ==
    <<[p \in DOMAIN ps |-> ps[p].payment_status],
      [o \in DOMAIN os |-> <<os[o].status, os[o].payment_status>>]>>

\* C25: process_ipn_callback returns True only in the step whose commit wrote
\* the new payment status (and, for a first FINISHED, the order as PAID /
\* FINISHED); a call whose commit raises returns False, and no step of a call
\* other than a commit that went through changes a stored payment or order status.
C25_SuccessOnlyAfterCommit ==
    [][\A w \in Workers :
          /\ (proc'[w].result = "true" /\ proc[w].result # "true") =>
                /\ proc[w].pc = "commit"
                /\ payments'[proc[w].pid].payment_status = proc[w].new_status
                /\ proc[w].finishing =>
                      /\ orders'[proc[w].order_id].status = "PAID"
                      /\ orders'[proc[w].order_id].payment_status = "FINISHED"
          /\ (proc[w].pc = "commit" /\ "commit" \in proc'[w].faults) =>
                proc'[w].result = "false"
          /\ (proc'[w] # proc[w] /\ proc'[w].result # "true") =>
                StoredStatuses(payments', orders') = StoredStatuses(payments, orders)
      ]_vars

\* a first finished notification whose commit raised: failure is returned and
\* the payment and the order are stored as they were
C25_Witness ==
    /\ proc[SeqWorker].pc = "respond"
    /\ proc[SeqWorker].result = "false"
    /\ "commit" \in proc[SeqWorker].faults
    /\ proc[SeqWorker].finishing
    /\ proc[SeqWorker].pid = "np_1"
    /\ payments["np_1"].payment_status = "WAITING"
    /\ orders[1].status = "PENDING"

\* worker w holds a validly signed finished notification for a known payment
HoldsFinished(w, p) ==
    /\ proc[w].pc # "idle"
    /\ ValidlySigned(proc[w].req)
    /\ SaysFinished(proc[w].req)
    /\ proc[w].req.body.payment_id = p

\* C26: with the gateway delivering a validly signed finished notification of
\* a known payment again until it is answered 2xx, and commits no longer
\* failing after a while, the payment is eventually stored FINISHED and its
\* order PAID; and no response to a finished notification whose application
\* failed has a 2xx status code.
C26_RetryReachesFinished ==
    /\ \A p \in {"np_1", "np_2"} :
          HoldsFinished(SeqWorker, p) ~>
             /\ payments[p].payment_status = "FINISHED"
             /\ orders[payments[p].order_id].status = "PAID"
    /\ [](\A p \in {"np_1", "np_2"} :
            (HoldsFinished(SeqWorker, p) /\ proc[SeqWorker].pc = "respond"
                                         /\ proc[SeqWorker].result # "true")
            => HttpResponse(proc[SeqWorker].ret).status_code \notin 200..299)

\* the nine status names of the gateway
GatewayStatusNames == {"waiting", "confirming", "confirmed", "sending", "partially_paid",
                       "finished", "failed", "refunded", "expired"}

\* the PaymentStatus member named like a gateway status name
LikeNamed(s) ==
    CASE s = "waiting" -> "WAITING"
      [] s = "confirming" -> "CONFIRMING"
      [] s = "confirmed" -> "CONFIRMED"
      [] s = "sending" -> "SENDING"
      [] s = "partially_paid" -> "PARTIALLY_PAID"
      [] s = "finished" -> "FINISHED"
      [] s = "failed" -> "FAILED"
      [] s = "refunded" -> "REFUNDED"
      [] s = "expired" -> "EXPIRED"

\* the request carries a status string that is none of the nine names
SaysUnknownStatus(req) ==
    /\ req.body.payment_status \notin {Absent, ""}
    /\ Lower(req.body.payment_status) \notin GatewayStatusNames

\* C27: map_payment_status gives each of the nine gateway status names, in
\* any letter case, the like-named PaymentStatus; and no step of a worker that
\* holds a notification with any other status string changes the stored
\* status of a payment (a FINISHED payment stays FINISHED).
C27_UnknownStatusChangesNothing ==
    /\ \A s \in GatewayStatusNames \cup {"FINISHED", "Confirming"} :
          map_payment_status(s) = LikeNamed(Lower(s))
    /\ [][\A w \in Workers :
            (proc'[w] # proc[w] /\ SaysUnknownStatus(proc[w].req)) =>
               \A p \in DOMAIN payments :
                  payments'[p].payment_status = payments[p].payment_status]_vars

\* the cart that the cart_add actions of a Telegram user have filled
CartFilledBy(telegram_user) == CartOf(IntKey(telegram_user.id))

\* C28: a cart_checkout by a user whose cart_add actions left the cart
\* non-empty creates exactly one order, PENDING, owned by that user, with one
\* line item per distinct product of the cart and subtotal the sum of
\* unit price times accumulated quantity, and empties that user's cart while
\* leaving the carts of other users as they are.
C28_CheckoutTurnsCartIntoOrder ==
    [][\A telegram_user \in TelegramUsers :
          (start_checkout(telegram_user) /\ CartFilledBy(telegram_user) # <<>>) =>
             LET cart == CartFilledBy(telegram_user)
                 order_id == NextId(orders)
                 lines == CartLines(cart, DOMAIN cart)
             IN  /\ DOMAIN orders' = DOMAIN orders \cup {order_id}
                 /\ orders'[order_id].status = "PENDING"
                 /\ users'[orders'[order_id].user_id].telegram_id = PyStr(telegram_user.id)
                 /\ orders'[order_id].subtotal = SumOf(lines, "total_price")
                 /\ Len(order_items'[order_id]) = Cardinality(DOMAIN cart)
                 /\ \A k \in DOMAIN user_carts' :
                       /\ k \in DOMAIN user_carts
                       /\ user_carts'[k] = IF k = IntKey(telegram_user.id) THEN <<>>
                                           ELSE user_carts[k]
      ]_vars

\* the payments this step inserts
NewPayments == DOMAIN payments' \ DOMAIN payments

\* C29: no step inserts a payment for an order whose status is already PAID
\* or later on the order status machine.
C29_NoPaymentForPaidOrder ==
    [][\A p \in NewPayments :
          OrderRank(orders[payments'[p].order_id].status) < OrderRank("PAID")]_vars

\* C30: a payment inserted by process_crypto_payment is for an order owned by
\* the user who pressed the payment button.
C30_PaymentOnlyForOwnOrder ==
    [][\A p \in NewPayments :
          users[orders[payments'[p].order_id].user_id].telegram_id
             = PyStr(bot.telegram_user)]_vars

====
